---- MODULE Spec2Model ----
(***************************************************************************)
(* A model of the headlamp front-end excerpt:                              *)
(*   - Table.tsx: usePageURLState (the two synchronisation effects), the   *)
(*     Table's pagination handler and the values it computes on render;    *)
(*   - AppLogo.tsx: the logo resolver;                                     *)
(*   - the circular chart adapters' getLegend;                             *)
(*   - the dynamic-clusters example plugin: ClusterCreationButton.         *)
(* React state is modelled as a committed value (what the last render saw) *)
(* plus a pending value (what the queued setState calls will make it at    *)
(* the next render); effects run after a render on the values that render  *)
(* saw.                                                                    *)
(***************************************************************************)
EXTENDS Integers, Sequences, FiniteSets, TLC

VARIABLES
    \* ---- Table.tsx: props and pagination state
    reflectInURL,          \* prop reflectInURL
    initialPage,           \* prop initialPage (1-indexed)
    data,                  \* prop data
    page,                  \* usePageURLState: value of useURLState(key, ...)
    zeroIndexPage,         \* usePageURLState: useState(page - 1)
    pageSize,              \* Table: value of useURLState('perPage', ...)
    pagePending,           \* page after the queued setPage calls
    zeroIndexPagePending,  \* zeroIndexPage after the queued setZeroIndexPage calls
    pageSizePending,       \* pageSize after the queued setPageSize calls
    urlEffectDue,          \* the effect with deps [page] has yet to run
    indexEffectDue,        \* the effect with deps [zeroIndexPage] has yet to run
    lastChange,            \* the last change from outside and what followed it
    \* ---- Table.tsx: the other props and what a render computes from them
    filterFunction,        \* prop filterFunction
    errorMessage,          \* prop errorMessage
    loading,               \* prop loading
    rowsPerPage,           \* prop rowsPerPage
    storeRowsPerPageOptions, \* useSettings('tableRowsPerPageOptions')
    tableData,             \* useMemo: the rows handed to the grid engine
    enablePagination,      \* the enablePagination option handed to the grid engine
    view,                  \* what the Table returns
    \* ---- Table.tsx: columns
    columns,               \* prop columns
    columnVisibility,      \* prop state.columnVisibility: the keys set to false
    enableRowActions,      \* prop enableRowActions
    enableRowSelection,    \* prop enableRowSelection
    tableColumns,          \* useMemo: the columns handed to the grid engine
    gridTemplateColumns,   \* useMemo: the CSS grid template
    \* ---- the circular charts
    chart,                 \* MemoryCircularChart or CpuCircularChart
    noMetrics,             \* prop noMetrics
    used,                  \* the used value the chart computed
    available,             \* the available value the chart computed
    legend,                \* what getLegend returned
    \* ---- AppLogo.tsx
    arePluginsLoaded,      \* state.plugins.loaded
    PluginAppLogoComponent, \* state.theme.logo
    logoType,              \* prop logoType
    themeName,             \* prop themeName
    activeTheme,           \* what getThemeName() returns
    mode,                  \* what useNavBarMode() returns
    logoView,              \* what AppLogo returns
    \* ---- dynamic-clusters plugin: ClusterCreationButton
    open,                  \* useState(false): the dialog is open
    kubeconfig,            \* useState(''): the kubeconfig field
    name,                  \* useState(''): the name field
    server,                \* useState(''): the server field
    isDynamicClusterEnabled, \* useState(false)
    error,                 \* useState<string | null>(null)
    configRequest,         \* the request('/config') promise
    setClusterRequests,    \* the Headlamp.setCluster promises not yet settled
    reloaded,              \* window.location.reload() has been called
    lastEvent              \* the last handler or callback that ran

pageVars == <<reflectInURL, initialPage, data, page, zeroIndexPage, pageSize,
              pagePending, zeroIndexPagePending, pageSizePending,
              urlEffectDue, indexEffectDue, lastChange>>

viewVars == <<filterFunction, errorMessage, loading, rowsPerPage,
              storeRowsPerPageOptions, tableData, enablePagination, view>>

colVars == <<columns, columnVisibility, enableRowActions, enableRowSelection,
             tableColumns, gridTemplateColumns>>

legendVars == <<chart, noMetrics, used, available, legend>>

logoVars == <<arePluginsLoaded, PluginAppLogoComponent, logoType, themeName,
              activeTheme, mode, logoView>>

pluginVars == <<open, kubeconfig, name, server, isDynamicClusterEnabled, error,
                configRequest, setClusterRequests, reloaded, lastEvent>>

vars == <<pageVars, viewVars, colVars, legendVars, logoVars, pluginVars>>

\* everything but the pagination state and the dataset
nonPageVars == <<viewVars, colVars, legendVars, logoVars, pluginVars>>

\* everything but the dataset and what a render computes from the props
nonViewVars == <<reflectInURL, initialPage, page, zeroIndexPage, pageSize,
                 pagePending, zeroIndexPagePending, pageSizePending,
                 urlEffectDue, indexEffectDue, lastChange,
                 colVars, legendVars, logoVars, pluginVars>>

----------------------------------------------------------------------------
\* Bounds of the model

\* URL page values range over 1..MaxPage, page indices over 0..MaxPage-1
MaxPage == 6

\* initialPage ranges over 1..MaxInitialPage
MaxInitialPage == 1

\* datasets hold up to MaxRows rows
MaxRows == 3

\* page-size options range over 1..MaxOption
MaxOption == 3

\* a list of page-size options holds up to MaxOptions options
MaxOptions == 2

\* a table has up to MaxColumns columns
MaxColumns == 3

\* used and available values range up to MaxQuantity
MaxQuantity == 3

\* up to MaxRequests Headlamp.setCluster calls are in flight at a time
MaxRequests == 1

----------------------------------------------------------------------------
\* Optional values: undefined, or a defined value

Undefined == [defined |-> FALSE, value |-> <<>>]

Some(v) == [defined |-> TRUE, value |-> <<v>>]

ValueOf(o) == o.value[1]

----------------------------------------------------------------------------
\* Table.tsx: usePageURLState and the pagination handler

\* reflectInURL?: string | boolean
ReflectInURLValues == {"undefined", "false", "true", "x"}

\* the page-size options of the selector
PageSizes == {15, 25}

shouldReflectInURL == reflectInURL # "undefined" /\ reflectInURL # "false"

prefix == IF reflectInURL = "true" THEN ""
          ELSE IF reflectInURL \in {"undefined", "false"} THEN "" ELSE reflectInURL

\* the key usePageURLState is given; an empty key keeps the state out of the URL
PageKey == IF shouldReflectInURL THEN "p" ELSE ""

\* the name of the URL parameter that holds the page
PageParam == prefix \o PageKey

\* tableProps.data?.length
DataLength(d) == IF d.defined THEN Len(ValueOf(d)) ELSE 0

\* the updater of the effect with deps [page], never writing on mismatch
PageUpdaterNoSync(p, z) == z

\* setZeroIndexPage(zeroIndexPage => page - 1 !== zeroIndexPage ? page - 1 : zeroIndexPage)
PageUpdater(p, z) == IF p - 1 # z THEN p - 1 ELSE z

\* the effect with deps [zeroIndexPage] never running again
IndexEffectNever(before, after) == FALSE

\* deps [zeroIndexPage]: the effect runs when the rendered value changed
IndexEffectDeps(before, after) == before # after

\* deps [page]
URLEffectDeps(before, after) == before # after

\* setPage(zeroIndexPage + 1)
PageOfIndex(z) == z + 1

\* state.pagination.pageIndex, as the Table hands it to the grid engine
GridPageIndex == zeroIndexPage - 1

\* the updaters the grid engine calls onPaginationChange with
Updaters == {[kind |-> "next", arg |-> 0], [kind |-> "previous", arg |-> 0]}
            \cup {[kind |-> "index", arg |-> k] : k \in 0..(MaxPage - 2)}
            \cup {[kind |-> "size", arg |-> s] : s \in PageSizes}

ApplyUpdater(u, old) ==
    CASE u.kind = "next" -> [old EXCEPT !.pageIndex = @ + 1]
      [] u.kind = "previous" -> [old EXCEPT !.pageIndex = @ - 1]
      [] u.kind = "index" -> [old EXCEPT !.pageIndex = u.arg]
      [] u.kind = "size" ->
            [pageIndex |-> (old.pageSize * old.pageIndex) \div u.arg,
             pageSize |-> u.arg]

\* nothing is queued and no effect has yet to run
Settled == /\ ~urlEffectDue
           /\ ~indexEffectDue
           /\ pagePending = page
           /\ zeroIndexPagePending = zeroIndexPage
           /\ pageSizePending = pageSize

PageInit ==
    /\ reflectInURL \in ReflectInURLValues
    /\ initialPage \in 1..MaxInitialPage
    /\ data \in {Some(<<>>)} \cup {Some([i \in 1..MaxRows |-> i])}
    \* useURLState: the URL's value when the parameter is there, else the default
    /\ page \in IF shouldReflectInURL THEN 1..MaxPage ELSE {initialPage + 1}
    /\ zeroIndexPage = page - 1
    /\ pageSize \in PageSizes
    /\ pagePending = page
    /\ zeroIndexPagePending = zeroIndexPage
    /\ pageSizePending = pageSize
    \* both effects run after the first render
    /\ urlEffectDue = TRUE
    /\ indexEffectDue = TRUE
    /\ lastChange = [side |-> "mount", value |-> page, before |-> page - 1,
                     wrote |-> FALSE]

\* Table.onPaginationChange
OnPaginationChange(updater) ==
    /\ DataLength(data) # 0
    /\ LET pagination == ApplyUpdater(updater, [pageIndex |-> zeroIndexPage - 1,
                                                pageSize |-> pageSize])
       IN /\ pagination.pageIndex + 1 \in 0..(MaxPage - 1)
          /\ zeroIndexPagePending' = pagination.pageIndex + 1
          /\ pageSizePending' = pagination.pageSize
          /\ lastChange' = [side |-> "index", value |-> pagination.pageIndex + 1,
                            before |-> zeroIndexPage, wrote |-> FALSE]
    /\ UNCHANGED nonPageVars
    /\ UNCHANGED <<reflectInURL, initialPage, data, page, zeroIndexPage, pageSize,
                   pagePending, urlEffectDue, indexEffectDue>>

\* the URL's page parameter changes from outside (navigation): useURLState
\* takes the new value
URLPageChange(v) ==
    /\ shouldReflectInURL
    /\ pagePending' = v
    /\ lastChange' = [side |-> "url", value |-> v, before |-> zeroIndexPage,
                     wrote |-> FALSE]
    /\ UNCHANGED nonPageVars
    /\ UNCHANGED <<reflectInURL, initialPage, data, page, zeroIndexPage, pageSize,
                   zeroIndexPagePending, pageSizePending, urlEffectDue,
                   indexEffectDue>>

\* the URL's perPage parameter changes from outside
URLPerPageChange(s) ==
    /\ shouldReflectInURL
    /\ pageSizePending # s
    /\ pageSizePending' = s
    /\ UNCHANGED nonPageVars
    /\ UNCHANGED <<reflectInURL, initialPage, data, page, zeroIndexPage, pageSize,
                   pagePending, zeroIndexPagePending, urlEffectDue, indexEffectDue,
                   lastChange>>

\* React renders the Table with the queued state and schedules the effects
\* whose deps changed
Render ==
    /\ ~urlEffectDue
    /\ ~indexEffectDue
    /\ <<pagePending, zeroIndexPagePending, pageSizePending>>
         # <<page, zeroIndexPage, pageSize>>
    /\ page' = pagePending
    /\ zeroIndexPage' = zeroIndexPagePending
    /\ pageSize' = pageSizePending
    /\ urlEffectDue' = URLEffectDeps(page, pagePending)
    /\ indexEffectDue' = IndexEffectDeps(zeroIndexPage, zeroIndexPagePending)
    /\ UNCHANGED nonPageVars
    /\ UNCHANGED <<reflectInURL, initialPage, data, pagePending,
                   zeroIndexPagePending, pageSizePending, lastChange>>

\* useEffect(() => setZeroIndexPage(...), [page])
EffectURLToIndex ==
    /\ urlEffectDue
    /\ zeroIndexPagePending' = PageUpdater(page, zeroIndexPagePending)
    /\ urlEffectDue' = FALSE
    /\ lastChange' = [lastChange EXCEPT
                        !.wrote = @ \/ zeroIndexPagePending' # zeroIndexPagePending]
    /\ UNCHANGED nonPageVars
    /\ UNCHANGED <<reflectInURL, initialPage, data, page, zeroIndexPage, pageSize,
                   pagePending, pageSizePending, indexEffectDue>>

\* useEffect(() => setPage(zeroIndexPage + 1), [zeroIndexPage]); it is declared
\* second, so it runs after the first one
EffectIndexToURL ==
    /\ indexEffectDue
    /\ ~urlEffectDue
    /\ pagePending' = PageOfIndex(zeroIndexPage)
    /\ indexEffectDue' = FALSE
    /\ UNCHANGED nonPageVars
    /\ UNCHANGED <<reflectInURL, initialPage, data, page, zeroIndexPage, pageSize,
                   zeroIndexPagePending, pageSizePending, urlEffectDue, lastChange>>

----------------------------------------------------------------------------
\* Table.tsx: what a render computes from the props

\* the row items are numbered 1, 2, ...
Rows(n) == [i \in 1..n |-> i]

DataValues == {Undefined} \cup {Some(Rows(n)) : n \in 0..MaxRows}

\* filterFunction?: (item) => boolean
FilterFunctions == {"undefined", "all", "odd", "none"}

Accepts(f, item) == CASE f = "all" -> TRUE
                      [] f = "odd" -> item % 2 = 1
                      [] f = "none" -> FALSE

\* errorMessage?: ReactNode
ErrorMessages == {Undefined, Some(""), Some("boom")}

\* loading?: boolean
LoadingValues == {Undefined, Some(FALSE), Some(TRUE)}

\* the lists of page-size options: not empty, in any order
OptionLists == UNION {[1..n -> 1..MaxOption] : n \in 1..MaxOptions}

\* the lists the settings store holds
StoreOptionLists == {<<o>> : o \in 1..MaxOption} \cup {<<1, MaxOption>>}

\* !!x of an optional string
TruthyString(o) == o.defined /\ ValueOf(o) # ""

\* !!x of an optional boolean
TruthyBoolean(o) == o.defined /\ ValueOf(o)

\* tableProps.data ?? []
DataOrEmpty(d) == IF d.defined THEN ValueOf(d) ELSE <<>>

\* Array.prototype.filter
RECURSIVE FilterRows(_, _)
FilterRows(f, rows) ==
    IF rows = <<>> THEN <<>>
    ELSE (IF Accepts(f, Head(rows)) THEN <<Head(rows)>> ELSE <<>>)
         \o FilterRows(f, Tail(rows))

\* useMemo(() => ..., [tableProps.data, filterFunction])
TableData(d, f) == IF f = "undefined" THEN DataOrEmpty(d)
                   ELSE FilterRows(f, DataOrEmpty(d))

\* rowsPerPage || storeRowsPerPageOptions
RowsPerPageOptions(prop, store) == IF prop.defined THEN ValueOf(prop) ELSE store

\* pagination decided on the rows of the prop instead of the filtered rows
EnablePaginationUnfiltered(d, f, options) == Len(DataOrEmpty(d)) > options[1]

\* enablePagination: tableData.length > rowsPerPageOptions[0]
EnablePagination(d, f, options) == Len(TableData(d, f)) > options[1]

\* the loading indicator taking precedence over the error message
TableViewLoadingFirst(e, l, d) ==
    IF TruthyBoolean(l) THEN "loading"
    ELSE IF TruthyString(e) THEN "error"
    ELSE IF DataLength(d) = 0 THEN "empty"
    ELSE "grid"

\* the Table's return statements
TableView(e, l, d) ==
    IF TruthyString(e) THEN "error"
    ELSE IF TruthyBoolean(l) THEN "loading"
    ELSE IF DataLength(d) = 0 /\ ~TruthyBoolean(l) THEN "empty"
    ELSE "grid"

ViewIdle ==
    /\ filterFunction = "undefined"
    /\ errorMessage = Undefined
    /\ loading = Undefined
    /\ rowsPerPage = Undefined
    /\ storeRowsPerPageOptions = <<1, MaxOption>>
    /\ tableData = <<>>
    /\ enablePagination = FALSE
    /\ view = "unrendered"

PageIdle ==
    /\ reflectInURL = "undefined"
    /\ initialPage = 1
    /\ page = 2
    /\ zeroIndexPage = 1
    /\ pageSize = 15
    /\ pagePending = page
    /\ zeroIndexPagePending = zeroIndexPage
    /\ pageSizePending = pageSize
    /\ urlEffectDue = FALSE
    /\ indexEffectDue = FALSE
    /\ lastChange = [side |-> "mount", value |-> page, before |-> page - 1,
                     wrote |-> FALSE]

ViewInit ==
    /\ data \in DataValues
    /\ filterFunction \in FilterFunctions
    /\ errorMessage \in ErrorMessages
    /\ loading \in LoadingValues
    /\ rowsPerPage \in {Undefined} \cup {Some(o) : o \in OptionLists}
    /\ storeRowsPerPageOptions \in StoreOptionLists
    /\ tableData = <<>>
    /\ enablePagination = FALSE
    /\ view = "unrendered"

\* the Table function renders: the memoised rows, the grid engine's options and
\* the returned view
TableRender ==
    /\ view = "unrendered"
    /\ tableData' = TableData(data, filterFunction)
    /\ enablePagination' =
          EnablePagination(data, filterFunction,
                           RowsPerPageOptions(rowsPerPage, storeRowsPerPageOptions))
    /\ view' = TableView(errorMessage, loading, data)
    /\ UNCHANGED <<data, filterFunction, errorMessage, loading, rowsPerPage,
                   storeRowsPerPageOptions>>
    /\ UNCHANGED nonViewVars

----------------------------------------------------------------------------
\* Table.tsx: column ids and the grid template

\* gridTemplate?: string | number
NoTemplate == [kind |-> "undefined", number |-> 0, string |-> ""]

NumberTemplate(n) == [kind |-> "number", number |-> n, string |-> ""]

StringTemplate(t) == [kind |-> "string", number |-> 0, string |-> t]

GridTemplates == {NoTemplate, NumberTemplate(1), StringTemplate("2fr"),
                  StringTemplate("min-content")}

\* id?: string
ColumnIds == {Undefined, Some("1"), Some("a")}

ColumnDefs == [id : ColumnIds, gridTemplate : GridTemplates]

ColumnLists == UNION {[1..n -> ColumnDefs] : n \in 0..MaxColumns}

\* the keys state.columnVisibility may set to false
VisibilityKeys == {"0", "a"}

\* String(i) of the zero-based index of the column at position pos
IndexString(pos) == ToString(pos - 1)

\* id: column.id ?? String(i)
ColumnId(column, pos) ==
    IF column.id.defined THEN ValueOf(column.id) ELSE IndexString(pos)

\* useMemo(() => tableProps.columns.map(...), [tableProps.columns])
TableColumns(cols) ==
    [pos \in 1..Len(cols) |-> [id |-> ColumnId(cols[pos], pos),
                               gridTemplate |-> cols[pos].gridTemplate]]

\* the property key an id reads: an undefined key reads "undefined"
VisibilityKey(id) == IF id.defined THEN ValueOf(id) ELSE "undefined"

\* tableProps.state?.columnVisibility?.[it.id!] === false
IsHidden(it, hidden) == VisibilityKey(it.id) \in hidden

\* the track of one column
GridTrack(it) ==
    CASE it.gridTemplate.kind = "number" -> ToString(it.gridTemplate.number) \o "fr"
      [] it.gridTemplate.kind = "string" -> it.gridTemplate.string
      [] it.gridTemplate.kind = "undefined" -> "1fr"

\* Array.prototype.join
RECURSIVE Join(_, _)
Join(strings, separator) ==
    IF strings = <<>> THEN ""
    ELSE IF Len(strings) = 1 THEN strings[1]
    ELSE strings[1] \o separator \o Join(Tail(strings), separator)

\* .filter(it => !isHidden).map(track)
RECURSIVE VisibleTracks(_, _)
VisibleTracks(cols, hidden) ==
    IF cols = <<>> THEN <<>>
    ELSE (IF IsHidden(Head(cols), hidden) THEN <<>> ELSE <<GridTrack(Head(cols))>>)
         \o VisibleTracks(Tail(cols), hidden)

\* useMemo(() => ..., [columns, columnVisibility, enableRowActions, enableRowSelection])
GridTemplateColumns(cols, hidden, rowActions, rowSelection) ==
    LET joined == Join(VisibleTracks(cols, hidden), " ")
        withActions == IF rowActions THEN joined \o " 0.05fr" ELSE joined
    IN IF rowSelection THEN "0.05fr " \o withActions ELSE withActions

ColumnsIdle ==
    /\ columns = <<>>
    /\ columnVisibility = {}
    /\ enableRowActions = FALSE
    /\ enableRowSelection = FALSE
    /\ tableColumns = <<>>
    /\ gridTemplateColumns = "unrendered"

ColumnsInit ==
    /\ columns \in ColumnLists
    /\ columnVisibility \in SUBSET VisibilityKeys
    /\ enableRowActions \in BOOLEAN
    /\ enableRowSelection \in BOOLEAN
    /\ tableColumns = <<>>
    /\ gridTemplateColumns = "unrendered"

\* the Table function renders: the two memos over the columns
ColumnsRender ==
    /\ gridTemplateColumns = "unrendered"
    /\ tableColumns' = TableColumns(columns)
    /\ gridTemplateColumns' =
          GridTemplateColumns(columns, columnVisibility, enableRowActions,
                              enableRowSelection)
    /\ UNCHANGED <<columns, columnVisibility, enableRowActions, enableRowSelection>>
    /\ UNCHANGED <<pageVars, viewVars, legendVars, logoVars, pluginVars>>

----------------------------------------------------------------------------
\* The circular chart adapters

Charts == {"memory", "cpu"}

\* noMetrics?: boolean
NoMetricsValues == {Undefined, Some(FALSE), Some(TRUE)}

\* the values the getters yield; -1 and 0 stand for an unknown capacity
Quantities == (-2)..MaxQuantity

\* formatMetricValueUnit(value, unit, type): the display string of a value in
\* a unit family
formatMetricValueUnit(value, unit, type) ==
    "format(" \o ToString(value) \o ", '" \o unit \o "', '" \o type \o "')"

\* t('cores')
CoresLabel == "cores"

\* the sentinel test knowing 0 alone
IsUnknownCapacityZeroOnly(a) == a = 0

\* available === 0 || available === -1
IsUnknownCapacity(a) == a = 0 \/ a = -1

\* MemoryCircularChart.getLegend
MemoryGetLegend(u, a, nm) ==
    IF IsUnknownCapacity(a) THEN ""
    ELSE LET availableLabel == formatMetricValueUnit(a, "", "binary")
         IN IF TruthyBoolean(nm) THEN availableLabel
            ELSE LET usedLabel == formatMetricValueUnit(u, "", "binary")
                 IN usedLabel \o " / " \o availableLabel

\* CpuCircularChart.getLegend
CpuGetLegend(u, a, nm) ==
    IF IsUnknownCapacity(a) THEN ""
    ELSE LET availableLabel ==
                 formatMetricValueUnit(a, "", "") \o " " \o CoresLabel
         IN IF TruthyBoolean(nm) THEN availableLabel
            ELSE LET usedLabel == formatMetricValueUnit(u, "", "cpu")
                 IN usedLabel \o " / " \o availableLabel

LegendIdle ==
    /\ chart = "memory"
    /\ noMetrics = Undefined
    /\ used = 0
    /\ available = 0
    /\ legend = Undefined

LegendInit ==
    /\ chart \in Charts
    /\ noMetrics \in NoMetricsValues
    /\ used \in Quantities
    /\ available \in Quantities
    /\ legend = Undefined

\* ResourceCircularChart calls getLegend(used, available)
GetLegend ==
    /\ legend = Undefined
    /\ legend' = Some(IF chart = "memory"
                       THEN MemoryGetLegend(used, available, noMetrics)
                       ELSE CpuGetLegend(used, available, noMetrics))
    /\ UNCHANGED <<chart, noMetrics, used, available>>
    /\ UNCHANGED <<pageVars, viewVars, colVars, logoVars, pluginVars>>

\* the metrics or the capacity change
NewReadings(u, a) ==
    /\ legend # Undefined
    /\ used' = u
    /\ available' = a
    /\ legend' = Undefined
    /\ UNCHANGED <<chart, noMetrics>>
    /\ UNCHANGED <<pageVars, viewVars, colVars, logoVars, pluginVars>>

----------------------------------------------------------------------------
\* AppLogo.tsx

\* logoType?: 'small' | 'large'
LogoTypes == {"undefined", "small", "large"}

\* themeName?: string
ThemeNameProps == {"undefined", "light", "dark"}

Themes == {"light", "dark"}

\* state.theme.logo: nothing, a ready-made element or a component
PluginLogos == {"null", "element", "component"}

\* const { logoType = 'large', themeName = getThemeName() } = props
LogoTypeOrDefault(lt) == IF lt = "undefined" THEN "large" ELSE lt

ThemeNameOrDefault(tn, active) == IF tn = "undefined" THEN active ELSE tn

\* OriginalAppLogo: the built-in asset for a size and a theme
OriginalAppLogo(lt, tn) ==
    IF lt = "large"
    THEN (IF tn = "dark" THEN "LogoWithTextLight" ELSE "LogoWithTextDark")
    ELSE (IF tn = "dark" THEN "LogoLight" ELSE "LogoDark")

LogoNothing == [root |-> "EmptyContent", child |-> "", logoType |-> "",
                themeName |-> ""]

\* the logo resolver not waiting for the plugins
AppLogoUngated(loaded, plugin, lt, tn, active, navBarMode) ==
    IF plugin # "null"
    THEN IF plugin = "element"
         THEN [root |-> "ErrorBoundary", child |-> "PluginElement",
               logoType |-> "", themeName |-> ""]
         ELSE [root |-> "ErrorBoundary", child |-> "PluginComponent",
               logoType |-> LogoTypeOrDefault(lt),
               themeName |-> ThemeNameOrDefault(tn, active)]
    ELSE [root |-> "OriginalAppLogo",
          child |-> OriginalAppLogo(LogoTypeOrDefault(lt), navBarMode),
          logoType |-> LogoTypeOrDefault(lt), themeName |-> navBarMode]

\* AppLogo: what it returns for the props and the store it reads
AppLogo(loaded, plugin, lt, tn, active, navBarMode) ==
    IF ~loaded THEN LogoNothing
    ELSE IF plugin # "null"
    THEN IF plugin = "element"
         THEN [root |-> "ErrorBoundary", child |-> "PluginElement",
               logoType |-> "", themeName |-> ""]
         ELSE [root |-> "ErrorBoundary", child |-> "PluginComponent",
               logoType |-> LogoTypeOrDefault(lt),
               themeName |-> ThemeNameOrDefault(tn, active)]
    ELSE [root |-> "OriginalAppLogo",
          child |-> OriginalAppLogo(LogoTypeOrDefault(lt), navBarMode),
          logoType |-> LogoTypeOrDefault(lt), themeName |-> navBarMode]

LogoIdle ==
    /\ arePluginsLoaded = FALSE
    /\ PluginAppLogoComponent = "null"
    /\ logoType = "undefined"
    /\ themeName = "undefined"
    /\ activeTheme = "light"
    /\ mode = "light"
    /\ logoView = LogoNothing

\* the application starts: no plugin has run yet
LogoInit ==
    /\ arePluginsLoaded = FALSE
    /\ PluginAppLogoComponent = "null"
    /\ logoType \in LogoTypes
    /\ themeName \in ThemeNameProps
    /\ activeTheme \in Themes
    /\ mode \in Themes
    /\ logoView = AppLogo(arePluginsLoaded, PluginAppLogoComponent, logoType,
                          themeName, activeTheme, mode)

\* a plugin registers a logo in the store; AppLogo renders again
RegisterAppLogo(plugin) ==
    /\ PluginAppLogoComponent # plugin
    /\ PluginAppLogoComponent' = plugin
    /\ logoView' = AppLogo(arePluginsLoaded, plugin, logoType, themeName,
                           activeTheme, mode)
    /\ UNCHANGED <<arePluginsLoaded, logoType, themeName, activeTheme, mode>>
    /\ UNCHANGED <<pageVars, viewVars, colVars, legendVars, pluginVars>>

\* the host sets the plugins-loaded flag; AppLogo renders again
PluginsLoaded ==
    /\ ~arePluginsLoaded
    /\ arePluginsLoaded' = TRUE
    /\ logoView' = AppLogo(TRUE, PluginAppLogoComponent, logoType, themeName,
                           activeTheme, mode)
    /\ UNCHANGED <<PluginAppLogoComponent, logoType, themeName, activeTheme, mode>>
    /\ UNCHANGED <<pageVars, viewVars, colVars, legendVars, pluginVars>>

\* the user selects another theme or the navigation bar changes its mode;
\* AppLogo renders again
ThemeChange(active, navBarMode) ==
    /\ <<active, navBarMode>> # <<activeTheme, mode>>
    /\ activeTheme' = active
    /\ mode' = navBarMode
    /\ logoView' = AppLogo(arePluginsLoaded, PluginAppLogoComponent, logoType,
                           themeName, active, navBarMode)
    /\ UNCHANGED <<arePluginsLoaded, PluginAppLogoComponent, logoType, themeName>>
    /\ UNCHANGED <<pageVars, viewVars, colVars, legendVars, pluginVars>>

----------------------------------------------------------------------------
\* dynamic-clusters plugin: ClusterCreationButton

\* What the kubeconfig field may hold, by what atob and yaml.load make of it:
\* atob throws or not; yaml.load throws, or yields nothing, or an object with
\* its apiVersion and kind
Document(text, base64, yaml, apiVersion, kind) ==
    [text |-> text, base64 |-> base64, yaml |-> yaml,
     apiVersion |-> apiVersion, kind |-> kind]

KubeconfigInputs ==
    {Document("", TRUE, "nothing", "", ""),
     Document("%%%", FALSE, "nothing", "", ""),
     Document("base64(a: [)", TRUE, "throws", "", ""),
     Document("base64(kind: Config)", TRUE, "object", "", "Config"),
     Document("base64(apiVersion: v1, kind: Pod)", TRUE, "object", "v1", "Pod"),
     Document("base64(apiVersion: v1, kind: Config)", TRUE, "object", "v1", "Config")}

NameInputs == {"", "dev"}

ServerInputs == {"", "https://dev"}

\* e.message of a failed Headlamp.setCluster
HostMessages == {"forbidden", "bad gateway"}

\* the validation accepting any object yaml.load yields
isValidKubeconfigAnyObject(base64Kubeconfig) ==
    IF ~base64Kubeconfig.base64
    THEN Some("Error decoding/parsing kubeconfig: invalid character")
    ELSE IF base64Kubeconfig.yaml = "throws"
    THEN Some("Error decoding/parsing kubeconfig: bad yaml")
    ELSE IF base64Kubeconfig.yaml = "object"
    THEN Undefined
    ELSE Some("Invalid kubeconfig format: Missing required fields")

\* isValidKubeconfig: the error message, or null (Undefined) for no error
isValidKubeconfig(base64Kubeconfig) ==
    IF ~base64Kubeconfig.base64
    THEN Some("Error decoding/parsing kubeconfig: invalid character")
    ELSE IF base64Kubeconfig.yaml = "throws"
    THEN Some("Error decoding/parsing kubeconfig: bad yaml")
    ELSE IF /\ base64Kubeconfig.yaml = "object"
            /\ base64Kubeconfig.apiVersion = "v1"
            /\ base64Kubeconfig.kind = "Config"
    THEN Undefined
    ELSE Some("Invalid kubeconfig format: Missing required fields")

\* if (validationError)
IsError(validationError) == validationError.defined /\ ValueOf(validationError) # ""

\* the payloads of Headlamp.setCluster
KubeconfigPayload(k) == [kind |-> "kubeconfig", kubeconfig |-> k.text,
                         name |-> "", server |-> ""]

NameServerPayload(n, sv) == [kind |-> "nameServer", kubeconfig |-> "",
                             name |-> n, server |-> sv]

\* the text set when Headlamp.setCluster fails
SetClusterErrorText(payload, message) ==
    IF payload.kind = "kubeconfig"
    THEN "Error setting cluster. Please check the provided kubeconfig: " \o message
    ELSE "Error setting cluster. Please check the provided name and server: "
         \o message

\* handleClose() at the end of handleSubmit
OpenAfterSubmit(wasOpen) == FALSE

\* the flag starting out enabled
InitialDynamicClusterEnabledOn == TRUE

\* useState(false)
InitialDynamicClusterEnabled == FALSE

Event(kind, message) == [kind |-> kind, message |-> message]

\* the component mounts: the config request is sent
PluginInit ==
    /\ open = FALSE
    /\ kubeconfig = Document("", TRUE, "nothing", "", "")
    /\ name = ""
    /\ server = ""
    /\ isDynamicClusterEnabled = InitialDynamicClusterEnabled
    /\ error = Undefined
    /\ configRequest = "pending"
    /\ setClusterRequests = <<>>
    /\ reloaded = FALSE
    /\ lastEvent = Event("mount", "")

PluginIdle == PluginInit

\* request('/config').then(response => setIsDynamicClusterEnabled(...))
ConfigResolved(flag) ==
    /\ ~reloaded
    /\ configRequest = "pending"
    /\ configRequest' = "resolved"
    /\ isDynamicClusterEnabled' = flag
    /\ lastEvent' = Event("configResolved", "")
    /\ UNCHANGED <<open, kubeconfig, name, server, error, setClusterRequests,
                   reloaded>>
    /\ UNCHANGED <<pageVars, viewVars, colVars, legendVars, logoVars>>

\* request('/config').catch(error => console.error(...))
ConfigFailed ==
    /\ ~reloaded
    /\ configRequest = "pending"
    /\ configRequest' = "failed"
    /\ lastEvent' = Event("configFailed", "")
    /\ UNCHANGED <<open, kubeconfig, name, server, isDynamicClusterEnabled, error,
                   setClusterRequests, reloaded>>
    /\ UNCHANGED <<pageVars, viewVars, colVars, legendVars, logoVars>>

\* handleOpen
HandleOpen ==
    /\ ~reloaded
    /\ ~open
    /\ open' = TRUE
    /\ lastEvent' = Event("open", "")
    /\ UNCHANGED <<kubeconfig, name, server, isDynamicClusterEnabled, error,
                   configRequest, setClusterRequests, reloaded>>
    /\ UNCHANGED <<pageVars, viewVars, colVars, legendVars, logoVars>>

\* handleClose, as the Modal's onClose
HandleClose ==
    /\ ~reloaded
    /\ open
    /\ open' = FALSE
    /\ lastEvent' = Event("close", "")
    /\ UNCHANGED <<kubeconfig, name, server, isDynamicClusterEnabled, error,
                   configRequest, setClusterRequests, reloaded>>
    /\ UNCHANGED <<pageVars, viewVars, colVars, legendVars, logoVars>>

\* onChange of the kubeconfig field, rendered in dynamic mode
ChangeKubeconfig(k) ==
    /\ ~reloaded
    /\ open
    /\ isDynamicClusterEnabled
    /\ k # kubeconfig
    /\ kubeconfig' = k
    /\ lastEvent' = Event("edit", "")
    /\ UNCHANGED <<open, name, server, isDynamicClusterEnabled, error,
                   configRequest, setClusterRequests, reloaded>>
    /\ UNCHANGED <<pageVars, viewVars, colVars, legendVars, logoVars>>

\* onChange of the name field, rendered when dynamic mode is off
ChangeName(n) ==
    /\ ~reloaded
    /\ open
    /\ ~isDynamicClusterEnabled
    /\ n # name
    /\ name' = n
    /\ lastEvent' = Event("edit", "")
    /\ UNCHANGED <<open, kubeconfig, server, isDynamicClusterEnabled, error,
                   configRequest, setClusterRequests, reloaded>>
    /\ UNCHANGED <<pageVars, viewVars, colVars, legendVars, logoVars>>

\* onChange of the server field, rendered when dynamic mode is off
ChangeServer(sv) ==
    /\ ~reloaded
    /\ open
    /\ ~isDynamicClusterEnabled
    /\ sv # server
    /\ server' = sv
    /\ lastEvent' = Event("edit", "")
    /\ UNCHANGED <<open, kubeconfig, name, isDynamicClusterEnabled, error,
                   configRequest, setClusterRequests, reloaded>>
    /\ UNCHANGED <<pageVars, viewVars, colVars, legendVars, logoVars>>

\* handleSubmit
HandleSubmit ==
    /\ ~reloaded
    /\ open
    /\ IF isDynamicClusterEnabled
       THEN LET validationError == isValidKubeconfig(kubeconfig)
            IN IF IsError(validationError)
               THEN /\ error' = validationError
                    /\ lastEvent' = Event("submitAborted", "")
                    /\ UNCHANGED <<open, setClusterRequests>>
               ELSE /\ Len(setClusterRequests) < MaxRequests
                    /\ error' = Undefined
                    /\ setClusterRequests' =
                          Append(setClusterRequests, KubeconfigPayload(kubeconfig))
                    /\ open' = OpenAfterSubmit(open)
                    /\ lastEvent' = Event("submitSent", "")
       ELSE /\ Len(setClusterRequests) < MaxRequests
            /\ error' = Undefined
            /\ setClusterRequests' =
                  Append(setClusterRequests, NameServerPayload(name, server))
            /\ open' = OpenAfterSubmit(open)
            /\ lastEvent' = Event("submitSent", "")
    /\ UNCHANGED <<kubeconfig, name, server, isDynamicClusterEnabled,
                   configRequest, reloaded>>
    /\ UNCHANGED <<pageVars, viewVars, colVars, legendVars, logoVars>>

\* the sequence without its i-th element
Without(requests, i) ==
    [j \in 1..(Len(requests) - 1) |-> IF j < i THEN requests[j] ELSE requests[j + 1]]

\* Headlamp.setCluster(...).then(() => window.location.reload())
SetClusterResolved(i) ==
    /\ ~reloaded
    /\ i \in 1..Len(setClusterRequests)
    /\ reloaded' = TRUE
    /\ setClusterRequests' = Without(setClusterRequests, i)
    /\ lastEvent' = Event("reload", "")
    /\ UNCHANGED <<open, kubeconfig, name, server, isDynamicClusterEnabled, error,
                   configRequest>>
    /\ UNCHANGED <<pageVars, viewVars, colVars, legendVars, logoVars>>

\* Headlamp.setCluster(...).catch(e => setError('Error setting cluster. ...' + e.message))
SetClusterFailed(i, message) ==
    /\ ~reloaded
    /\ i \in 1..Len(setClusterRequests)
    /\ error' = Some(SetClusterErrorText(setClusterRequests[i], message))
    /\ setClusterRequests' = Without(setClusterRequests, i)
    /\ lastEvent' = Event("setClusterFailed", message)
    /\ UNCHANGED <<open, kubeconfig, name, server, isDynamicClusterEnabled,
                   configRequest, reloaded>>
    /\ UNCHANGED <<pageVars, viewVars, colVars, legendVars, logoVars>>

\* the error text is on screen: {error && ...} inside the Modal
ErrorShown == open /\ error.defined /\ ValueOf(error) # ""

Init == PageInit /\ ViewIdle /\ ColumnsIdle /\ LegendIdle /\ LogoIdle
        /\ PluginIdle

Next ==
    \/ \E u \in Updaters : OnPaginationChange(u)
    \/ \E v \in 1..MaxPage : URLPageChange(v)
    \/ \E s \in PageSizes : URLPerPageChange(s)
    \/ Render
    \/ EffectURLToIndex
    \/ EffectIndexToURL

Spec == Init /\ [][Next]_vars

----------------------------------------------------------------------------
\* One side changes at a time: a pagination action or a URL change arrives only
\* once the effects of the previous one have run.  React runs a queued render
\* and the effects it scheduled without waiting for anything.

NextOneSide ==
    \/ Settled /\ \E u \in Updaters : OnPaginationChange(u)
    \/ Settled /\ \E v \in 1..MaxPage : URLPageChange(v)
    \/ Settled /\ \E s \in PageSizes : URLPerPageChange(s)
    \/ Render
    \/ EffectURLToIndex
    \/ EffectIndexToURL

SpecOneSide ==
    /\ Init
    /\ [][NextOneSide]_vars
    /\ WF_vars(Render)
    /\ WF_vars(EffectURLToIndex)
    /\ WF_vars(EffectIndexToURL)

----------------------------------------------------------------------------
\* C1: after a change of one side (a pagination action sets the index, or the
\* URL page value changes) the two effects reach a settled state with
\* zeroIndexPage = page - 1; the effect watching the URL value writes the index
\* only on mismatch; and from a settled state nothing is rendered or written
\* until the next change from outside.
C1_ConvergesWithoutOscillation ==
    /\ (~Settled) ~> (Settled /\ zeroIndexPage = page - 1)
    /\ [][(urlEffectDue /\ zeroIndexPagePending' # zeroIndexPagePending)
            => (~urlEffectDue' /\ page - 1 # zeroIndexPagePending
                /\ zeroIndexPagePending' = page - 1)]_vars
    /\ [][Settled => /\ page' = page
                     /\ zeroIndexPage' = zeroIndexPage
                     /\ ~urlEffectDue'
                     /\ ~indexEffectDue']_vars

\* a URL change to another page has been followed by the effect's write and
\* the state has settled on it
C1_Witness ==
    /\ Settled
    /\ lastChange.side = "url"
    /\ lastChange.wrote
    /\ zeroIndexPage = lastChange.value - 1
    /\ page = lastChange.value

\* C2: round trip.  Once settled after the URL page value was set to v (at
\* mount or by a URL change, with or without a prefix) the index is v - 1 and
\* the URL value still v; once settled after the index was set to n the URL
\* page value is n + 1 and the index still n.
C2_RoundTrip ==
    Settled =>
        /\ lastChange.side \in {"mount", "url"} =>
                (zeroIndexPage = lastChange.value - 1 /\ page = lastChange.value)
        /\ lastChange.side = "index" =>
                (page = lastChange.value + 1 /\ zeroIndexPage = lastChange.value)

\* with the prefix "x": the URL held 3, the index was then set to 5 and the URL
\* page value settled at 6
C2_Witness ==
    /\ Settled
    /\ PageParam = "xp"
    /\ lastChange.side = "index"
    /\ lastChange.value = 5
    /\ lastChange.before = 2
    /\ page = 6

\* C3: with URL reflection enabled the URL holds the one-based number of the
\* page the grid engine shows: in every settled state the URL page value is
\* state.pagination.pageIndex + 1.
C3_URLPageIsGridPagePlusOne ==
    (Settled /\ shouldReflectInURL) => page = GridPageIndex + 1

----------------------------------------------------------------------------
\* The Table rendered for every combination of its props

InitView == PageIdle /\ ViewInit /\ ColumnsIdle /\ LegendIdle /\ LogoIdle
            /\ PluginIdle

NextView == TableRender

SpecView == InitView /\ [][NextView]_vars

\* the rows the filter function lets through
FilteredLength ==
    Cardinality({i \in 1..DataLength(data) :
                    filterFunction = "undefined" \/ Accepts(filterFunction, i)})

\* the options in effect: the rowsPerPage prop, else the store's
OptionsInEffect == IF rowsPerPage.defined THEN ValueOf(rowsPerPage)
                   ELSE storeRowsPerPageOptions

MinOption == CHOOSE m \in {OptionsInEffect[i] : i \in DOMAIN OptionsInEffect} :
                \A i \in DOMAIN OptionsInEffect : m <= OptionsInEffect[i]

\* C4, as claimed: pagination is enabled iff the dataset is longer than the
\* smallest of the configured page-size options.
C4_PaginationIffLongerThanSmallest ==
    view # "unrendered" => (enablePagination <=> FilteredLength > MinOption)

\* C4, amended: pagination is enabled iff the filtered dataset is longer than
\* the first of the configured page-size options.
C4_PaginationIffLongerThanFirst ==
    view # "unrendered" => (enablePagination <=> FilteredLength > OptionsInEffect[1])

\* a rendered table whose rows outnumber the smallest option but not the first
\* one, and the filter has removed a row
C4_Witness ==
    /\ view # "unrendered"
    /\ FilteredLength > MinOption
    /\ FilteredLength <= OptionsInEffect[1]
    /\ FilteredLength < DataLength(data)
    /\ ~enablePagination

\* C5: the Table returns exactly one of four views, in strict precedence: the
\* error message if one is given; else the loading indicator if loading is set;
\* else the empty-state message if the dataset is empty; otherwise the grid.
C5_ViewPrecedence ==
    view # "unrendered" =>
        /\ view \in {"error", "loading", "empty", "grid"}
        /\ view = "error" <=> TruthyString(errorMessage)
        /\ view = "loading" <=> (~TruthyString(errorMessage) /\ loading = Some(TRUE))
        /\ view = "empty" <=> /\ ~TruthyString(errorMessage)
                              /\ loading # Some(TRUE)
                              /\ DataLength(data) = 0
        /\ view = "grid" <=> /\ ~TruthyString(errorMessage)
                             /\ loading # Some(TRUE)
                             /\ DataLength(data) > 0

\* an error message is shown although the table is loading and has no rows
C5_Witness ==
    /\ view = "error"
    /\ loading = Some(TRUE)
    /\ DataLength(data) = 0

----------------------------------------------------------------------------
\* The column memos for every column list and visibility state

InitColumns == PageIdle /\ data = Some(<<>>) /\ ViewIdle /\ ColumnsInit
               /\ LegendIdle /\ LogoIdle /\ PluginIdle

NextColumns == ColumnsRender

SpecColumns == InitColumns /\ [][NextColumns]_vars

\* the columns the grid engine shows: those whose id, as handed to it, the
\* column-visibility state does not set to false
RECURSIVE ShownTracks(_, _)
ShownTracks(cols, hidden) ==
    IF cols = <<>> THEN <<>>
    ELSE (IF Head(cols).id \in hidden THEN <<>>
          ELSE <<CASE Head(cols).gridTemplate.kind = "number" ->
                        ToString(Head(cols).gridTemplate.number) \o "fr"
                   [] Head(cols).gridTemplate.kind = "string" ->
                        Head(cols).gridTemplate.string
                   [] OTHER -> "1fr">>)
         \o ShownTracks(Tail(cols), hidden)

\* C6: the grid template is the fixed 0.05fr track when row selection is
\* enabled, then one track per visible column in order (n becomes "nfr", a
\* string is used as is, a missing hint becomes "1fr"), then the fixed 0.05fr
\* track when row actions are enabled, joined by spaces; a column hidden
\* through the column-visibility state contributes no track.  (The fixed
\* tracks are joined to the column tracks by one space even when no column is
\* visible, as the code does.)
C6_GridTemplateOfVisibleColumns ==
    gridTemplateColumns # "unrendered" =>
        gridTemplateColumns =
            (IF enableRowSelection THEN "0.05fr " ELSE "")
            \o Join(ShownTracks(tableColumns, columnVisibility), " ")
            \o (IF enableRowActions THEN " 0.05fr" ELSE "")

\* the explicit ids of the column list are pairwise distinct
ExplicitIdsDistinct ==
    \A i, j \in 1..Len(columns) :
        (i # j /\ columns[i].id.defined /\ columns[j].id.defined)
            => columns[i].id # columns[j].id

\* C7: for a column list whose explicit ids are distinct, a column without an
\* id gets its index as id and no two columns handed to the grid engine share
\* an id.
C7_ColumnIdsDistinct ==
    (gridTemplateColumns # "unrendered" /\ ExplicitIdsDistinct) =>
        /\ \A i \in 1..Len(columns) :
              ~columns[i].id.defined => tableColumns[i].id = ToString(i - 1)
        /\ \A i, j \in 1..Len(tableColumns) :
              i # j => tableColumns[i].id # tableColumns[j].id

----------------------------------------------------------------------------
\* The chart legends for every reading

InitLegend == PageIdle /\ data = Some(<<>>) /\ ViewIdle /\ ColumnsIdle
              /\ LegendInit /\ LogoIdle /\ PluginIdle

NextLegend ==
    \/ GetLegend
    \/ \E u, a \in Quantities : NewReadings(u, a)

SpecLegend == InitLegend /\ [][NextLegend]_vars

\* the labels of the two charts
UsedLabel == IF chart = "memory" THEN formatMetricValueUnit(used, "", "binary")
             ELSE formatMetricValueUnit(used, "", "cpu")

AvailableLabel ==
    IF chart = "memory" THEN formatMetricValueUnit(available, "", "binary")
    ELSE formatMetricValueUnit(available, "", "") \o " cores"

\* C8: for both charts getLegend returns the empty string whenever available
\* is 0 or -1, whatever used and noMetrics are; for a positive available value
\* it returns "<used-label> / <available-label>" when metrics are present and
\* "<available-label>" alone when noMetrics is true.
C8_Legend ==
    legend.defined =>
        /\ available \in {0, -1} => ValueOf(legend) = ""
        /\ (available > 0 /\ noMetrics = Some(TRUE))
              => ValueOf(legend) = AvailableLabel
        /\ (available > 0 /\ noMetrics # Some(TRUE))
              => ValueOf(legend) = UsedLabel \o " / " \o AvailableLabel

\* the CPU chart has returned an empty legend for the sentinel -1 although
\* there is a used value and metrics are present
C8_Witness ==
    /\ chart = "cpu"
    /\ legend = Some("")
    /\ available = -1
    /\ used > 0
    /\ noMetrics = Some(FALSE)

----------------------------------------------------------------------------
\* The logo resolver while the plugins load

InitLogo == PageIdle /\ data = Some(<<>>) /\ ViewIdle /\ ColumnsIdle
            /\ LegendIdle /\ LogoInit /\ PluginIdle

NextLogo ==
    \/ \E plugin \in PluginLogos : RegisterAppLogo(plugin)
    \/ PluginsLoaded
    \/ \E active, navBarMode \in Themes : ThemeChange(active, navBarMode)

SpecLogo == InitLogo /\ [][NextLogo]_vars

BuiltInAssets == {"LogoWithTextLight", "LogoWithTextDark", "LogoLight", "LogoDark"}

\* C9: while the plugins-loaded flag is false AppLogo renders only the empty
\* placeholder, whether or not a plugin logo is registered; once the flag is
\* true it renders the plugin's logo inside the error boundary if one is
\* registered and otherwise a built-in asset, never both.
C9_LogoGatedOnPluginsLoaded ==
    /\ ~arePluginsLoaded => logoView = LogoNothing
    /\ (arePluginsLoaded /\ PluginAppLogoComponent # "null")
          => /\ logoView.root = "ErrorBoundary"
             /\ logoView.child \in {"PluginElement", "PluginComponent"}
    /\ (arePluginsLoaded /\ PluginAppLogoComponent = "null")
          => /\ logoView.root = "OriginalAppLogo"
             /\ logoView.child \in BuiltInAssets

\* a plugin has registered its logo before the plugins-loaded flag is set, and
\* the placeholder is what is rendered
C9_Witness ==
    /\ ~arePluginsLoaded
    /\ PluginAppLogoComponent = "component"
    /\ logoView = LogoNothing

\* C10: with the plugins loaded and no plugin logo, the built-in asset is the
\* one the 2x2 matrix selects for the logoType and themeName of the props; the
\* theme comes from the theme accessors only when themeName is omitted.
C10_PropsSelectBuiltInAsset ==
    (arePluginsLoaded /\ PluginAppLogoComponent = "null" /\ themeName # "undefined")
        => logoView.child = OriginalAppLogo(LogoTypeOrDefault(logoType), themeName)

----------------------------------------------------------------------------
\* The cluster creation button from mount to the page reload

InitPlugin == PageIdle /\ data = Some(<<>>) /\ ViewIdle /\ ColumnsIdle
              /\ LegendIdle /\ LogoIdle /\ PluginInit

NextPlugin ==
    \/ \E flag \in BOOLEAN : ConfigResolved(flag)
    \/ ConfigFailed
    \/ HandleOpen
    \/ HandleClose
    \/ \E k \in KubeconfigInputs : ChangeKubeconfig(k)
    \/ \E n \in NameInputs : ChangeName(n)
    \/ \E sv \in ServerInputs : ChangeServer(sv)
    \/ HandleSubmit
    \/ \E i \in 1..MaxRequests : SetClusterResolved(i)
    \/ \E i \in 1..MaxRequests, message \in HostMessages : SetClusterFailed(i, message)

SpecPlugin == InitPlugin /\ [][NextPlugin]_vars

\* the kubeconfig field holds a document that is base64 of YAML with
\* apiVersion v1 and kind Config
FieldIsKubeconfig ==
    /\ kubeconfig.base64
    /\ kubeconfig.yaml = "object"
    /\ kubeconfig.apiVersion = "v1"
    /\ kubeconfig.kind = "Config"

\* C11: in dynamic mode a submit whose input fails base64 decoding, YAML
\* parsing or the check for apiVersion v1 and kind Config sets a non-empty
\* error ("Invalid kubeconfig format: Missing required fields" when the fields
\* are missing), calls no Headlamp.setCluster and leaves the dialog open;
\* Headlamp.setCluster gets a kubeconfig payload only from a submit whose
\* input passed the validation.
C11_InvalidKubeconfigAborts ==
    /\ [][(~reloaded /\ open /\ isDynamicClusterEnabled /\ ~FieldIsKubeconfig
             /\ lastEvent'.kind \in {"submitAborted", "submitSent"})
            => /\ error'.defined /\ ValueOf(error') # ""
               /\ (kubeconfig.base64 /\ kubeconfig.yaml # "throws")
                    => error' = Some("Invalid kubeconfig format: Missing required fields")
               /\ setClusterRequests' = setClusterRequests
               /\ open']_vars
    /\ [][(/\ Len(setClusterRequests') > Len(setClusterRequests)
            /\ setClusterRequests'[Len(setClusterRequests')].kind = "kubeconfig")
            => /\ FieldIsKubeconfig
               /\ isDynamicClusterEnabled
               /\ setClusterRequests' =
                     Append(setClusterRequests, KubeconfigPayload(kubeconfig))]_vars

\* a submit in dynamic mode has just been aborted for missing fields: the
\* error is set, the dialog is open and nothing was sent
C11_Witness ==
    /\ lastEvent.kind = "submitAborted"
    /\ isDynamicClusterEnabled
    /\ kubeconfig.text = "base64(apiVersion: v1, kind: Pod)"
    /\ error = Some("Invalid kubeconfig format: Missing required fields")
    /\ open
    /\ setClusterRequests = <<>>

\* C12: when Headlamp.setCluster fails, in either mode, the host's message is
\* put before the user: once the failure callback has run, the error holds the
\* text with the host's message and the dialog that renders it is open.
C12_HostErrorShown ==
    lastEvent.kind = "setClusterFailed"
    => /\ ErrorShown
       /\ \E payload \in {KubeconfigPayload(kubeconfig), NameServerPayload(name, server)} :
             error = Some(SetClusterErrorText(payload, lastEvent.message))

\* C13: the dynamic-cluster flag is false from mount and changes only when the
\* config request resolves; a failed config request leaves the flag false and
\* the error as it was and is not sent again, so every submit made while the
\* request is pending or after it failed calls Headlamp.setCluster with
\* { name, server }.
C13_FlagOnlyFromConfig ==
    /\ [](configRequest # "resolved" => ~isDynamicClusterEnabled)
    /\ [][isDynamicClusterEnabled' # isDynamicClusterEnabled
            => (configRequest = "pending" /\ configRequest' = "resolved")]_vars
    /\ [][(configRequest = "pending" /\ configRequest' = "failed")
            => (isDynamicClusterEnabled' = FALSE /\ error' = error
                /\ setClusterRequests' = setClusterRequests /\ open' = open)]_vars
    /\ [][configRequest # "pending" => configRequest' = configRequest]_vars
    /\ [][(configRequest # "resolved"
             /\ lastEvent'.kind \in {"submitSent", "submitAborted"})
            => setClusterRequests' =
                 Append(setClusterRequests, NameServerPayload(name, server))]_vars

\* the config request failed and a later submit sent the name and the server
C13_Witness ==
    /\ configRequest = "failed"
    /\ ~isDynamicClusterEnabled
    /\ lastEvent.kind = "submitSent"
    /\ setClusterRequests = <<NameServerPayload("dev", "https://dev")>>

----------------------------------------------------------------------------
\* Both sides may change before one render: pagination actions and URL changes
\* arrive while no effect has yet to run and the rendered pair agrees, so that
\* React renders several of them at once.  Once the render and its effects are
\* under way nothing arrives from outside, and React runs them without waiting.

\* no effect has yet to run and the rendered index is the rendered URL value - 1
Quiet == /\ ~urlEffectDue
         /\ ~indexEffectDue
         /\ zeroIndexPage = page - 1

NextBothSides ==
    \/ Quiet /\ \E u \in Updaters : OnPaginationChange(u)
    \/ Quiet /\ \E v \in 1..MaxPage : URLPageChange(v)
    \/ Quiet /\ \E s \in PageSizes : URLPerPageChange(s)
    \/ Render
    \/ EffectURLToIndex
    \/ EffectIndexToURL

SpecBothSides ==
    /\ Init
    /\ [][NextBothSides]_vars
    /\ WF_vars(Render)
    /\ WF_vars(EffectURLToIndex)
    /\ WF_vars(EffectIndexToURL)

\* the URL page value and the index have both been changed from outside and
\* the render that takes them both has not happened yet
BothChanged ==
    /\ Quiet
    /\ pagePending # page
    /\ zeroIndexPagePending # zeroIndexPage

\* C14: when the URL page value and the index have both changed before either
\* effect has run, the two effects still reach a settled state with
\* zeroIndexPage = page - 1, instead of writing the two values back and forth
\* for ever.
C14_BothSidesSettle ==
    BothChanged ~> (Settled /\ zeroIndexPage = page - 1)

====
